---- MODULE Spec2Model ----
(***************************************************************************)
(* Attendance check-in / check-out of the Quave event application.         *)
(*                                                                         *)
(* The model covers the People collection, the two Meteor methods          *)
(* people.checkIn and people.checkOut of src/communities/communities.js    *)
(* and the concurrent execution of several method invocations on one       *)
(* server: every `await` of a handler is a point where other invocations   *)
(* run, and `new Date()` is evaluated by the handler when it builds the    *)
(* update, before the database applies it.                                 *)
(***************************************************************************)
EXTENDS Integers, Sequences, FiniteSets, TLC

(* ---------------------------- bounds ----------------------------------- *)

\* number of method invocations that can be in progress at the same time
MaxCalls == 2
\* the wall clock takes the values 0..MaxClock (milliseconds)
MaxClock == 1
\* change notifications that can wait for the subscriber
MaxPending == 2

Calls == 1..MaxCalls
Times == 0..MaxClock

(* ---------------------------- values ----------------------------------- *)

\* JavaScript null, as stored in checkInDate / checkOutDate
Null == -1

\* a Date is truthy, null is falsy
Truthy(d) == d # Null

\* strings are sequences of characters
P1 == <<"p", "1">>
P2 == <<"p", "2">>
PX == <<"p", "x">>
EmptyStr == <<>>
BlankStr == <<" ">>
\* the ids of two communities
Comm1 == <<"c", "1">>
Comm2 == <<"c", "2">>

\* method arguments as JavaScript values: a type tag and, for strings, the text
StrArg(s) == [type |-> "string", str |-> s]
NumArg == [type |-> "number", str |-> <<"4", "2">>]
NullArg == [type |-> "null", str |-> <<>>]
\* the arguments clients send: the id of a person, an id of nobody, and invalid ones
ArgValues == {StrArg(P1), StrArg(PX), StrArg(EmptyStr), StrArg(BlankStr), NumArg}

\* String.prototype.trim
RECURSIVE TrimLeft(_)
TrimLeft(s) == IF s # <<>> /\ Head(s) = " " THEN TrimLeft(Tail(s)) ELSE s
RECURSIVE TrimRight(_)
TrimRight(s) == IF s # <<>> /\ s[Len(s)] = " " THEN TrimRight(SubSeq(s, 1, Len(s) - 1)) ELSE s
Trim(s) == TrimRight(TrimLeft(s))

\* a variant of the argument checks without the test of the trimmed string
ValidateTypeOnly(arg) ==
    IF arg.type # "string" THEN "invalid-argument" ELSE "ok"

\* the argument checks both methods start with: "ok" or the error thrown
ValidatePersonId(arg) ==
    IF arg.type # "string" THEN "invalid-argument"
    ELSE IF Trim(arg.str) = <<>> THEN "invalid-argument"
    ELSE "ok"

(* ------------------------- the People collection ----------------------- *)

\* the documents the collection holds, with the fields the pages read; PX is
\* the id of no document
SeedPeople ==
    (P1 :> [communityId |-> Comm1, firstName |-> "Ana", lastName |-> "Lima",
            companyName |-> "Quave", title |-> "Engineer",
            checkInDate |-> Null, checkOutDate |-> Null]) @@
    (P2 :> [communityId |-> Comm2, firstName |-> "Rui", lastName |-> "Melo",
            companyName |-> "", title |-> "",
            checkInDate |-> Null, checkOutDate |-> Null])

\* the value findOneAsync resolves to when no document matches (falsy)
NoPerson ==
    [communityId |-> <<>>, firstName |-> "", lastName |-> "", companyName |-> "",
     title |-> "", checkInDate |-> Null, checkOutDate |-> Null]

\* People.findOneAsync({ _id: id })
FindOne(coll, id) == IF id \in DOMAIN coll THEN coll[id] ELSE NoPerson

\* a variant without $set: the update replaces the document by the patch
SetFieldsReplacesDocument(doc, patch) ==
    [f \in DOMAIN doc |-> IF f \in DOMAIN patch THEN patch[f] ELSE NoPerson[f]]

\* a document after { $set: patch }
SetFields(doc, patch) ==
    [f \in DOMAIN doc |-> IF f \in DOMAIN patch THEN patch[f] ELSE doc[f]]

\* a variant that inserts the document when none matches (upsert)
UpdateSetUpsert(coll, id, patch) ==
    IF id \in DOMAIN coll
    THEN [coll EXCEPT ![id] = SetFields(coll[id], patch)]
    ELSE coll @@ (id :> SetFields(NoPerson, patch))

\* a variant whose selector matches every document once id is in the collection
UpdateSetEveryDocument(coll, id, patch) ==
    IF id \in DOMAIN coll
    THEN [p \in DOMAIN coll |-> SetFields(coll[p], patch)]
    ELSE coll

\* People.updateAsync({ _id: id }, { $set: patch }): the collection afterwards
UpdateSet(coll, id, patch) ==
    IF id \in DOMAIN coll
    THEN [coll EXCEPT ![id] = SetFields(coll[id], patch)]
    ELSE coll

\* result.modifiedCount of that update: the number of documents it modified
ModifiedCount(coll, id, patch) ==
    IF id \in DOMAIN coll /\ SetFields(coll[id], patch) # coll[id] THEN 1 ELSE 0

\* variants: a checkIn that leaves checkOutDate alone, a checkOut that
\* clears checkInDate
CheckInPatchKeepsCheckOut(d) == [checkInDate |-> d]
CheckOutPatchClearsCheckIn(d) == [checkInDate |-> Null, checkOutDate |-> d]

\* the $set of people.checkIn and of people.checkOut, with d = new Date()
CheckInPatch(d) == [checkInDate |-> d, checkOutDate |-> Null]
CheckOutPatch(d) == [checkOutDate |-> d]

\* variants of the pre-checks, each without one of the three checks
PreCheckWithoutNotFound(person) ==
    IF ~Truthy(person.checkInDate) THEN "invalid-operation"
    ELSE IF Truthy(person.checkOutDate) THEN "already-checked-out"
    ELSE "ok"
PreCheckWithoutNotCheckedIn(person) ==
    IF person = NoPerson THEN "person-not-found"
    ELSE IF Truthy(person.checkOutDate) THEN "already-checked-out"
    ELSE "ok"
PreCheckWithoutAlreadyCheckedOut(person) ==
    IF person = NoPerson THEN "person-not-found"
    ELSE IF ~Truthy(person.checkInDate) THEN "invalid-operation"
    ELSE "ok"

\* the pre-checks of people.checkOut on the document it read: "ok" or the
\* error thrown
CheckOutPreCheck(person) ==
    IF person = NoPerson THEN "person-not-found"
    ELSE IF ~Truthy(person.checkInDate) THEN "invalid-operation"
    ELSE IF Truthy(person.checkOutDate) THEN "already-checked-out"
    ELSE "ok"

\* the states of a Person document
Unregistered(doc) == ~Truthy(doc.checkInDate) /\ ~Truthy(doc.checkOutDate)
Present(doc) == Truthy(doc.checkInDate) /\ ~Truthy(doc.checkOutDate)
Departed(doc) == Truthy(doc.checkOutDate)

(* ------------------------- the publications ---------------------------- *)

\* the documents of the Communities collection; no code of the application
\* writes to it
SeedCommunities ==
    (Comm1 :> [name |-> "Launch"]) @@ (Comm2 :> [name |-> "Summit"])

\* the subscription arguments clients send: the id of a community, nothing,
\* a number, the empty string and a blank string
SubArgValues == {StrArg(Comm1), NullArg, NumArg, StrArg(EmptyStr), StrArg(BlankStr)}

\* !communityId
Falsy(arg) ==
    \/ arg.type \in {"null", "undefined"}
    \/ arg.type = "string" /\ arg.str = <<>>

\* what the publish function of 'people' returns for an invalid argument:
\* nothing to observe
NoCursor == [query |-> FALSE, communityId |-> <<>>]

\* a variant of the publication without the typeof test
PublishPeopleNoTypeCheck(arg) ==
    IF Falsy(arg) THEN NoCursor
    ELSE IF arg.type = "string" /\ Trim(arg.str) = <<>> THEN NoCursor
    ELSE [query |-> TRUE, communityId |-> arg.str]

\* Meteor.publish('people'): the cursor People.find({ communityId }), or
\* nothing for an invalid argument
PublishPeople(arg) ==
    IF Falsy(arg) THEN NoCursor
    ELSE IF arg.type # "string" THEN NoCursor
    ELSE IF Trim(arg.str) = <<>> THEN NoCursor
    ELSE [query |-> TRUE, communityId |-> arg.str]

\* a variant of the selector that matches every document
MatchesAll(cursor, doc) == cursor.query

\* the selector { communityId } of the cursor
Matches(cursor, doc) == cursor.query /\ doc.communityId = cursor.communityId

\* the documents of the collection the cursor selects
Fetch(coll, cursor) ==
    [id \in {i \in DOMAIN coll : Matches(cursor, coll[i])} |-> coll[id]]

\* a variant that publishes the first community only
PublishCommunitiesFirst(coll) == [i \in DOMAIN coll \cap {Comm1} |-> coll[i]]

\* Meteor.publish('communities'): Communities.find(), every document
PublishCommunities(coll) == coll

\* variants of the delta: one that reports a change of any document as a
\* change of the set, one that never reports a change
DeltaIgnoresFilter(cursor, before, after) == "changed"
DeltaWithoutChanged(cursor, before, after) ==
    IF ~Matches(cursor, before) /\ Matches(cursor, after) THEN "added"
    ELSE IF Matches(cursor, before) /\ ~Matches(cursor, after) THEN "removed"
    ELSE "none"

\* what a reactive cursor sends for a change of a document from before to
\* after: the document enters the set, leaves it, changes within it, or the
\* change does not concern the set
Delta(cursor, before, after) ==
    IF ~Matches(cursor, before) /\ Matches(cursor, after) THEN "added"
    ELSE IF Matches(cursor, before) /\ ~Matches(cursor, after) THEN "removed"
    ELSE IF Matches(cursor, before) /\ Matches(cursor, after) THEN "changed"
    ELSE "none"

\* the client's copy of the documents after a delta
ApplyDelta(docs, delta, id, after) ==
    IF delta \in {"added", "changed"}
    THEN [i \in DOMAIN docs \cup {id} |-> IF i = id THEN after ELSE docs[i]]
    ELSE IF delta = "removed"
    THEN [i \in DOMAIN docs \ {id} |-> docs[i]]
    ELSE docs

\* no documents
NoDocs == [i \in {} |-> NoPerson]

\* the last delta the subscriber has observed: none yet
NoEvent == [delta |-> "none", id |-> <<>>, doc |-> NoPerson]

\* no subscription
NoSub ==
    [state |-> "none", arg |-> NullArg, cursor |-> NoCursor, ready |-> FALSE,
     docs |-> NoDocs, pending |-> <<>>, seen |-> NoEvent]

\* no subscription to 'communities'
NoCommSub == [state |-> "none", ready |-> FALSE, docs |-> [i \in {} |-> [name |-> ""]]]

\* a subscription the client has cancelled
StoppedSub == [NoSub EXCEPT !.state = "stopped"]

\* the subscription has a cursor that is being observed
Observing(s) == s.state = "active" /\ s.cursor.query

\* a variant that also notifies of an update that modified nothing
NotifyAlways(s, id, before, after) ==
    IF Observing(s)
    THEN [s EXCEPT !.pending = Append(@, [id |-> id, before |-> before, after |-> after])]
    ELSE s

\* the change notification of a write that modified document id: it is
\* queued for the observed cursor
Notify(s, id, before, after) ==
    IF Observing(s) /\ before # after
    THEN [s EXCEPT !.pending = Append(@, [id |-> id, before |-> before, after |-> after])]
    ELSE s

(* ------------------------------ state ---------------------------------- *)

VARIABLES
    people,   \* the People collection: _id -> document
    now,      \* the server's clock, what new Date() returns
    calls,    \* the method invocations in progress, one per slot
    sub,      \* the client's subscription to 'people'
    commSub,  \* the client's subscription to 'communities'
    home      \* HomePage: the selected event, and the error of its last handler

vars == <<people, now, calls, sub, commSub, home>>

\* the two subscriptions and the page
live == <<sub, commSub, home>>

\* the notifications waiting for the subscriber are at most MaxPending
QueueHasRoom == Observing(sub) => Len(sub.pending) < MaxPending

\* a variant that writes the patch one field at a time and stops after the
\* first field
StoreUpdateFirstField(id, patch) ==
    LET first == IF "checkInDate" \in DOMAIN patch
                 THEN [checkInDate |-> patch.checkInDate] ELSE patch
    IN /\ QueueHasRoom
       /\ people' = UpdateSet(people, id, first)
       /\ sub' = IF id \in DOMAIN people
                 THEN Notify(sub, id, people[id], SetFields(people[id], first))
                 ELSE sub
       /\ UNCHANGED <<commSub, home>>

\* People.updateAsync({ _id: id }, { $set: patch }) applied by the database,
\* with the change notification of the document it modified
StoreUpdate(id, patch) ==
    /\ QueueHasRoom
    /\ people' = UpdateSet(people, id, patch)
    /\ sub' = IF id \in DOMAIN people
              THEN Notify(sub, id, people[id], SetFields(people[id], patch))
              ELSE sub
    /\ UNCHANGED <<commSub, home>>

\* no return value: the invocation has not returned, or it has thrown
NoValue == [thrown |-> TRUE]

\* variants of the return values without the success flag
CheckInReturnMessageOnly == [message |-> "Check-in realizado com sucesso!"]
CheckOutReturnMessageOnly == [message |-> "Check-out realizado com sucesso!"]

\* the objects the two methods return
CheckInReturn == [success |-> TRUE, message |-> "Check-in realizado com sucesso!"]
CheckOutReturn == [success |-> TRUE, message |-> "Check-out realizado com sucesso!"]

\* what an invocation that ends with res hands to the client
ReturnValue(method, res) ==
    IF res # "success" THEN NoValue
    ELSE IF method = "checkIn" THEN CheckInReturn
    ELSE CheckOutReturn

\* what is thrown inside the try block: a Meteor.Error with its error code,
\* or the rejection of a store call, which is no Meteor.Error
MeteorError(code) == [meteor |-> TRUE, error |-> code]
StoreFailure == [meteor |-> FALSE, error |-> "MongoError"]

\* a variant of the catch block that rethrows whatever it caught
CatchRethrowsAll(e) == e.error

\* the catch block: a Meteor.Error is rethrown as it is, anything else
\* becomes a Meteor.Error('database-error')
Catch(e) == IF e.meteor THEN e.error ELSE "database-error"

\* HomePage before the user has selected an event: useState(null)
NoSelection == [selectedCommunityId |-> NullArg, error |-> "none"]

\* a slot with no invocation
IdleCall ==
    [method |-> "none", arg |-> NumArg, pc |-> "idle", person |-> NoPerson,
     date |-> Null, result |-> "none", value |-> NoValue]

\* an invocation that has returned or thrown: the handler's locals are gone,
\* what is left is the result on its way to the client
Done(call, res) ==
    [IdleCall EXCEPT !.method = call.method, !.arg = call.arg, !.pc = "done",
                     !.result = res, !.value = ReturnValue(call.method, res)]

\* a new invocation takes the first free slot
FreeSlot(c) ==
    /\ calls[c].pc = "idle"
    /\ \A d \in Calls : d < c => calls[d].pc # "idle"

Init ==
    /\ people = SeedPeople
    /\ now = 0
    /\ calls = [c \in Calls |-> IdleCall]
    /\ sub = NoSub
    /\ commSub = NoCommSub
    /\ home = NoSelection

\* time passes
Tick ==
    /\ now < MaxClock
    /\ now' = now + 1
    /\ UNCHANGED <<people, calls, live>>

(* --------------------------- people.checkIn ---------------------------- *)

\* a client invokes people.checkIn(arg): the argument checks, then the
\* handler builds the update with new Date() and awaits updateAsync
CallCheckIn(c, arg) ==
    /\ FreeSlot(c)
    /\ calls' = [calls EXCEPT ![c] =
          IF ValidatePersonId(arg) # "ok"
          THEN Done([IdleCall EXCEPT !.method = "checkIn", !.arg = arg],
                    ValidatePersonId(arg))
          ELSE [IdleCall EXCEPT !.method = "checkIn", !.arg = arg, !.pc = "update",
                                !.date = now]]
    /\ UNCHANGED <<people, now, live>>

\* the database applies the update of a checkIn and the handler resumes
CheckInUpdate(c) ==
    /\ calls[c].pc = "update"
    /\ calls[c].method = "checkIn"
    /\ LET id == calls[c].arg.str
           patch == CheckInPatch(calls[c].date)
       IN /\ StoreUpdate(id, patch)
          /\ calls' = [calls EXCEPT ![c] =
                IF ModifiedCount(people, id, patch) = 0
                THEN Done(@, Catch(MeteorError("person-not-found")))
                ELSE Done(@, "success")]
    /\ UNCHANGED now

(* --------------------------- people.checkOut --------------------------- *)

\* a client invokes people.checkOut(arg): the argument checks, then the
\* handler awaits findOneAsync
CallCheckOut(c, arg) ==
    /\ FreeSlot(c)
    /\ calls' = [calls EXCEPT ![c] =
          IF ValidatePersonId(arg) # "ok"
          THEN Done([IdleCall EXCEPT !.method = "checkOut", !.arg = arg],
                    ValidatePersonId(arg))
          ELSE [IdleCall EXCEPT !.method = "checkOut", !.arg = arg, !.pc = "find"]]
    /\ UNCHANGED <<people, now, live>>

\* the database answers findOneAsync
CheckOutFind(c) ==
    /\ calls[c].pc = "find"
    /\ calls' = [calls EXCEPT ![c].pc = "found",
                              ![c].person = FindOne(people, calls[c].arg.str)]
    /\ UNCHANGED <<people, now, live>>

\* a variant whose failed pre-check throws nothing and never settles
CheckOutChecksNeverSettles(c) ==
    /\ calls[c].pc = "found"
    /\ LET check == CheckOutPreCheck(calls[c].person)
       IN calls' = [calls EXCEPT ![c] =
             IF check # "ok"
             THEN @
             ELSE [IdleCall EXCEPT !.method = calls[c].method, !.arg = calls[c].arg,
                                   !.pc = "update", !.date = now]]
    /\ UNCHANGED <<people, now, live>>

\* the handler resumes with the document it read: the three pre-checks,
\* then it builds the update with new Date() and awaits updateAsync
CheckOutChecks(c) ==
    /\ calls[c].pc = "found"
    /\ LET check == CheckOutPreCheck(calls[c].person)
       IN calls' = [calls EXCEPT ![c] =
             IF check # "ok"
             THEN Done(@, Catch(MeteorError(check)))
             ELSE [IdleCall EXCEPT !.method = calls[c].method, !.arg = calls[c].arg,
                                   !.pc = "update", !.date = now]]
    /\ UNCHANGED <<people, now, live>>

\* the database applies the update of a checkOut and the handler resumes
CheckOutUpdate(c) ==
    /\ calls[c].pc = "update"
    /\ calls[c].method = "checkOut"
    /\ LET id == calls[c].arg.str
           patch == CheckOutPatch(calls[c].date)
       IN /\ StoreUpdate(id, patch)
          /\ calls' = [calls EXCEPT ![c] =
                IF ModifiedCount(people, id, patch) = 0
                THEN Done(@, Catch(MeteorError("update-failed")))
                ELSE Done(@, "success")]
    /\ UNCHANGED now

(* ------------------------------ clients -------------------------------- *)

\* the client receives the result or the error of its invocation
Return(c) ==
    /\ calls[c].pc = "done"
    /\ calls' = [calls EXCEPT ![c] = IdleCall]
    /\ UNCHANGED <<people, now, live>>

(* --------------------------- subscriptions ----------------------------- *)

\* the client subscribes to 'people' with arg: the publish function runs, the
\* documents of its cursor are sent and the subscription is ready; with no
\* cursor it is ready with nothing
Subscribe(arg) ==
    /\ sub.state \in {"none", "stopped"}
    /\ LET cursor == PublishPeople(arg)
       IN sub' = [state |-> "active", arg |-> arg, cursor |-> cursor, ready |-> TRUE,
                  docs |-> Fetch(people, cursor), pending |-> <<>>, seen |-> NoEvent]
    /\ UNCHANGED <<people, now, calls, commSub, home>>

\* the oldest change notification reaches the cursor's observer and its delta
\* reaches the subscriber
Deliver ==
    /\ sub.pending # <<>>
    /\ LET n == Head(sub.pending)
           delta == Delta(sub.cursor, n.before, n.after)
       IN sub' = [sub EXCEPT !.pending = Tail(@),
                             !.docs = ApplyDelta(@, delta, n.id, n.after),
                             !.seen = IF delta = "none" THEN @
                                      ELSE [delta |-> delta, id |-> n.id, doc |-> n.after]]
    /\ UNCHANGED <<people, now, calls, commSub, home>>

\* a variant of the cancellation that leaves the queued notifications
UnsubscribeLeavesQueue ==
    /\ sub.state = "active"
    /\ sub' = [StoppedSub EXCEPT !.pending = sub.pending, !.cursor = sub.cursor]
    /\ UNCHANGED <<people, now, calls, commSub, home>>

\* the client cancels the subscription (the component unmounts, or the selected
\* event changes): the observer stops and the client drops the documents
Unsubscribe ==
    /\ sub.state = "active"
    /\ sub' = StoppedSub
    /\ UNCHANGED <<people, now, calls, commSub, home>>

\* the client subscribes to 'communities': every document is sent and the
\* subscription is ready
SubscribeCommunities ==
    /\ commSub.state = "none"
    /\ commSub' = [state |-> "active", ready |-> TRUE,
                   docs |-> PublishCommunities(SeedCommunities)]
    /\ UNCHANGED <<people, now, calls, sub, home>>

\* the client cancels the subscription to 'communities'
UnsubscribeCommunities ==
    /\ commSub.state = "active"
    /\ commSub' = NoCommSub
    /\ UNCHANGED <<people, now, calls, sub, home>>

Next ==
    \/ Tick
    \/ \E c \in Calls, arg \in ArgValues : CallCheckIn(c, arg)
    \/ \E c \in Calls : CheckInUpdate(c)
    \/ \E c \in Calls, arg \in ArgValues : CallCheckOut(c, arg)
    \/ \E c \in Calls : CheckOutFind(c)
    \/ \E c \in Calls : CheckOutChecks(c)
    \/ \E c \in Calls : CheckOutUpdate(c)
    \/ \E c \in Calls : Return(c)

Spec == Init /\ [][Next]_vars

(* ------------------- the methods on a failing store -------------------- *)

\* the store rejects a call it was awaited on (findOneAsync of a checkOut,
\* updateAsync of either method): nothing is written, the catch block turns
\* the rejection into the error of the invocation
StoreRejects(c) ==
    /\ calls[c].pc \in {"find", "update"}
    /\ calls' = [calls EXCEPT ![c] = Done(@, Catch(StoreFailure))]
    /\ UNCHANGED <<people, now, live>>

\* the invocations of Next, on a store that may reject any call
NextFaulty ==
    \/ Tick
    \/ \E c \in Calls, arg \in ArgValues : CallCheckIn(c, arg)
    \/ \E c \in Calls : CheckInUpdate(c)
    \/ \E c \in Calls, arg \in ArgValues : CallCheckOut(c, arg)
    \/ \E c \in Calls : CheckOutFind(c)
    \/ \E c \in Calls : CheckOutChecks(c)
    \/ \E c \in Calls : CheckOutUpdate(c)
    \/ \E c \in Calls : Return(c)
    \/ \E c \in Calls : StoreRejects(c)

SpecFaulty == Init /\ [][NextFaulty]_vars

\* the store answers every call awaited on it and the handler resumes after
\* every answer
SpecFaultyFair ==
    /\ SpecFaulty
    /\ \A c \in Calls :
          /\ WF_vars(CheckInUpdate(c))
          /\ WF_vars(CheckOutFind(c))
          /\ WF_vars(CheckOutChecks(c))
          /\ WF_vars(CheckOutUpdate(c))

(* ------------- concurrent check-outs of one present person ------------- *)

\* P1 has checked in at some time up to now, and every slot is free
InitRace ==
    /\ now \in Times
    /\ \E t \in 0..now : people = [SeedPeople EXCEPT ![P1].checkInDate = t]
    /\ calls = [c \in Calls |-> IdleCall]
    /\ sub = NoSub
    /\ commSub = NoCommSub
    /\ home = NoSelection

\* MaxCalls clients invoke people.checkOut for P1, once each
NextRace ==
    \/ Tick
    \/ \E c \in Calls : CallCheckOut(c, StrArg(P1))
    \/ \E c \in Calls : CheckOutFind(c)
    \/ \E c \in Calls : CheckOutChecks(c)
    \/ \E c \in Calls : CheckOutUpdate(c)

SpecRace == InitRace /\ [][NextRace]_vars

(* ------------------ invocations for the two persons -------------------- *)

\* clients check P1 and P2 in and out at the same time: the invocation in
\* the first slot is for P1, those in the later slots are for P2
PairArg(c) == IF c = 1 THEN StrArg(P1) ELSE StrArg(P2)

\* up to MaxCalls invocations for P1 and P2 are in progress at once
NextPair ==
    \/ Tick
    \/ \E c \in Calls : CallCheckIn(c, PairArg(c))
    \/ \E c \in Calls : CheckInUpdate(c)
    \/ \E c \in Calls : CallCheckOut(c, PairArg(c))
    \/ \E c \in Calls : CheckOutFind(c)
    \/ \E c \in Calls : CheckOutChecks(c)
    \/ \E c \in Calls : CheckOutUpdate(c)
    \/ \E c \in Calls : Return(c)

SpecPair == Init /\ [][NextPair]_vars

(* ------------------ the methods with a subscriber ---------------------- *)

\* the arguments of the invocations while a subscriber observes: the two
\* persons as well
LiveArgValues == ArgValues \cup {StrArg(P2)}

\* one client at a time invokes a method; a client subscribes, receives the
\* deltas and cancels
NextLive ==
    \/ Tick
    \/ \E arg \in LiveArgValues : CallCheckIn(1, arg)
    \/ CheckInUpdate(1)
    \/ \E arg \in LiveArgValues : CallCheckOut(1, arg)
    \/ CheckOutFind(1)
    \/ CheckOutChecks(1)
    \/ CheckOutUpdate(1)
    \/ Return(1)
    \/ \E arg \in SubArgValues : Subscribe(arg)
    \/ Deliver
    \/ Unsubscribe
    \/ SubscribeCommunities
    \/ UnsubscribeCommunities

SpecLive == Init /\ [][NextLive]_vars

\* every queued notification is delivered in the end
SpecLiveFair == SpecLive /\ WF_vars(Deliver)

(* ------------------------------ HomePage -------------------------------- *)

\* the props HomePage passes to EventSelector, by name
HomePageProps == {"selectedCommunityId", "setSelectedCommunityId"}

\* the prop EventSelector reads: the function of that name if HomePage passes
\* one, undefined otherwise
Prop(name) == IF name \in HomePageProps THEN "setSelectedCommunityId" ELSE "undefined"

\* handleSelectChange: the value of the chosen option, '' becoming null
SelectedValue(value) == IF value = EmptyStr THEN NullArg ELSE StrArg(value)

\* HomePage renders: useSubscribe('people', selectedCommunityId)
HomePageSubscribes == Subscribe(home.selectedCommunityId)

\* the user picks the option of an event in the select, enabled once the
\* communities have loaded: handleSelectChange calls onSelectCommunity. With
\* the setter there, HomePage's state changes and useSubscribe subscribes
\* anew; with undefined there, the call throws a TypeError and nothing changes
SelectEvent(value) ==
    /\ commSub.state = "active" /\ commSub.ready
    /\ value \in DOMAIN commSub.docs
    /\ IF Prop("onSelectCommunity") = "undefined"
       THEN /\ home' = [home EXCEPT !.error = "TypeError"]
            /\ sub' = sub
       ELSE LET arg == SelectedValue(value)
                cursor == PublishPeople(arg)
            IN /\ home' = [selectedCommunityId |-> arg, error |-> "none"]
               /\ sub' = IF sub.state # "active" \/ sub.arg = arg THEN sub
                         ELSE [state |-> "active", arg |-> arg, cursor |-> cursor,
                               ready |-> TRUE, docs |-> Fetch(people, cursor),
                               pending |-> <<>>, seen |-> NoEvent]
    /\ UNCHANGED <<people, now, calls, commSub>>

\* the page in a browser, while other clients check people in and out, one
\* invocation at a time; no delivery takes place, HomePage's subscription
\* having no cursor
NextHome ==
    \/ Tick
    \/ \E arg \in LiveArgValues : CallCheckIn(1, arg)
    \/ CheckInUpdate(1)
    \/ \E arg \in LiveArgValues : CallCheckOut(1, arg)
    \/ CheckOutFind(1)
    \/ CheckOutChecks(1)
    \/ CheckOutUpdate(1)
    \/ Return(1)
    \/ HomePageSubscribes
    \/ Unsubscribe
    \/ SubscribeCommunities
    \/ UnsubscribeCommunities
    \/ \E value \in DOMAIN SeedCommunities : SelectEvent(value)

SpecHome == Init /\ [][NextHome]_vars

(* ------------------------------ PeopleList ------------------------------ *)

\* the seconds a person must have been checked in before the check-out
\* button is offered
WaitSeconds == 5

\* the clock advances in steps of the wait; dates are in milliseconds
MsPerTick == WaitSeconds * 1000

\* getTimeDifferenceInSeconds(date): 0 for no date, otherwise the whole
\* seconds from date to the clock
GetTimeDifferenceInSeconds(date, clock) ==
    IF ~Truthy(date) THEN 0 ELSE ((clock - date) * MsPerTick) \div 1000

\* a variant that offers the check-out as soon as the person is present
RenderActionButtonWithoutWait(person, clock) ==
    IF ~Truthy(person.checkInDate) THEN "check-in"
    ELSE IF Truthy(person.checkInDate) /\ ~Truthy(person.checkOutDate) THEN "check-out"
    ELSE "none"

\* renderActionButton(person): the check-in button, the disabled wait button,
\* the check-out button, or the text with no button
RenderActionButton(person, clock) ==
    IF ~Truthy(person.checkInDate) THEN "check-in"
    ELSE IF Truthy(person.checkInDate) /\ ~Truthy(person.checkOutDate)
    THEN IF GetTimeDifferenceInSeconds(person.checkInDate, clock) < WaitSeconds
         THEN "wait" ELSE "check-out"
    ELSE "none"

\* the user clicks the check-in button of a person in the list:
\* handleCheckIn calls people.checkIn with the person's _id
ClickCheckIn(c, p) ==
    /\ p \in DOMAIN sub.docs
    /\ RenderActionButton(sub.docs[p], now) = "check-in"
    /\ CallCheckIn(c, StrArg(p))

\* the user clicks the check-out button of a person in the list:
\* handleCheckOut calls people.checkOut with the person's _id
ClickCheckOut(c, p) ==
    /\ p \in DOMAIN sub.docs
    /\ RenderActionButton(sub.docs[p], now) = "check-out"
    /\ CallCheckOut(c, StrArg(p))

\* a client subscribes to 'people' and its list shows the documents it holds;
\* every invocation comes from a button of the list, one at a time
NextList ==
    \/ Tick
    \/ \E p \in DOMAIN SeedPeople : ClickCheckIn(1, p)
    \/ CheckInUpdate(1)
    \/ \E p \in DOMAIN SeedPeople : ClickCheckOut(1, p)
    \/ CheckOutFind(1)
    \/ CheckOutChecks(1)
    \/ CheckOutUpdate(1)
    \/ Return(1)
    \/ \E arg \in SubArgValues : Subscribe(arg)
    \/ Deliver
    \/ Unsubscribe

SpecList == Init /\ [][NextList]_vars

(* ------------------------------ claims --------------------------------- *)

\* the invocation in slot c has ended with the result or error res
Ended(c, method, res) ==
    /\ calls[c].pc = "done"
    /\ calls[c].method = method
    /\ calls[c].result = res

\* the step is the database applying the update of invocation c for person p
CheckInWrites(c, p) == CheckInUpdate(c) /\ calls[c].arg.str = p
CheckOutWrites(c, p) == CheckOutUpdate(c) /\ calls[c].arg.str = p

\* C1: of the concurrent people.checkOut calls for one person who is present,
\* at most one returns success, and once all have ended exactly one has returned
\* success and every other has thrown update-failed (the lost race) or
\* already-checked-out
C1_ExactlyOneCheckOutSucceeds ==
    LET ok == {c \in Calls : Ended(c, "checkOut", "success")}
    IN /\ Cardinality(ok) <= 1
       /\ (\A c \in Calls : calls[c].pc = "done") =>
             /\ Cardinality(ok) = 1
             /\ \A c \in Calls \ ok :
                   calls[c].result \in {"update-failed", "already-checked-out",
                                        "invalid-operation"}

\* C2: a checkOut never overwrites a checkOutDate that is already set
C2_CheckOutDateWrittenOnce ==
    [][\A c \in Calls, p \in DOMAIN people :
          CheckOutWrites(c, p) /\ Truthy(people[p].checkOutDate)
             => people'[p].checkOutDate = people[p].checkOutDate]_vars

\* C3: in every state every document with a checkOutDate has a checkInDate,
\* and the checkOutDate is not before it
C3_CheckOutNotBeforeCheckIn ==
    \A p \in DOMAIN people :
        Truthy(people[p].checkOutDate) =>
            /\ Truthy(people[p].checkInDate)
            /\ people[p].checkOutDate >= people[p].checkInDate

\* C4 as claimed: a departed record stays departed and a checkInDate, once
\* set, is never replaced
C4_OneShot ==
    [][\A p \in DOMAIN people :
          /\ Departed(people[p]) => Departed(people'[p])
          /\ Truthy(people[p].checkInDate)
                => people'[p].checkInDate = people[p].checkInDate]_vars

\* C4 as amended: no record returns to Unregistered, and only the write of a
\* checkIn replaces a checkInDate or makes a departed record present again
C4_OnlyCheckInReopens ==
    [][\A p \in DOMAIN people :
          /\ Truthy(people[p].checkInDate) => Truthy(people'[p].checkInDate)
          /\ (\/ people'[p].checkInDate # people[p].checkInDate
              \/ Departed(people[p]) /\ ~Departed(people'[p]))
                => \E c \in Calls : CheckInWrites(c, p)]_vars

\* a checkOut of P1 has succeeded and P1 is present again after a checkIn
C4_Witness ==
    \E c, d \in Calls :
        /\ Ended(c, "checkOut", "success") /\ calls[c].arg.str = P1
        /\ Ended(d, "checkIn", "success") /\ calls[d].arg.str = P1
        /\ Present(people[P1])

\* C5: the update of a checkIn for an existing record succeeds whatever the
\* document holds and leaves it with checkInDate = the call's new Date() and
\* checkOutDate = null; a checkIn throws person-not-found only for an id of
\* no document
C5_CheckInSucceedsOnExistingRecord ==
    [][\A c \in Calls :
          CheckInUpdate(c) =>
             LET id == calls[c].arg.str
             IN /\ id \in DOMAIN people =>
                      /\ calls'[c].result = "success"
                      /\ people'[id].checkInDate = calls[c].date
                      /\ people'[id].checkOutDate = Null
                /\ calls'[c].result = "person-not-found" => id \notin DOMAIN people]_vars

C7_CheckInNotFound ==
    [][\A c \in Calls :
          CheckInUpdate(c) /\ calls[c].arg.str \notin DOMAIN people
             => /\ calls'[c].result = "person-not-found"
                /\ people' = people]_vars

\* a checkIn of the unknown id has thrown person-not-found
C7_Witness ==
    \E c \in Calls :
        /\ Ended(c, "checkIn", "person-not-found")
        /\ calls[c].arg = StrArg(PX)
        /\ PX \notin DOMAIN people

\* C8: the update of a successful checkOut leaves the record departed, and a
\* checkOut that then reads the departed record throws already-checked-out
\* without issuing an update: the checkOutDate stays as written
C8_SecondCheckOutRejected ==
    [][\A c \in Calls :
          /\ \A p \in DOMAIN people :
                CheckOutWrites(c, p) /\ calls'[c].result = "success"
                   => Departed(people'[p])
          /\ CheckOutChecks(c) /\ calls[c].person # NoPerson
                               /\ Departed(calls[c].person)
                               /\ Truthy(calls[c].person.checkInDate)
                => /\ calls'[c] = Done(calls[c], "already-checked-out")
                   /\ people' = people]_vars

\* a checkOut of P1 has succeeded and a second one has been rejected
C8_Witness ==
    \E c, d \in Calls :
        /\ Ended(c, "checkOut", "success") /\ calls[c].arg.str = P1
        /\ Ended(d, "checkOut", "already-checked-out") /\ calls[d].arg.str = P1
        /\ Departed(people[P1])

\* C9: a checkOut that reads an existing document whose checkInDate is null
\* throws invalid-operation without issuing an update
C9_CheckOutNotCheckedIn ==
    [][\A c \in Calls :
          CheckOutChecks(c) /\ calls[c].person # NoPerson
                            /\ ~Truthy(calls[c].person.checkInDate)
             => /\ calls'[c] = Done(calls[c], "invalid-operation")
                /\ people' = people]_vars

\* a checkOut of P1 has thrown invalid-operation and P1 is unregistered
C9_Witness ==
    \E c \in Calls :
        /\ Ended(c, "checkOut", "invalid-operation") /\ calls[c].arg.str = P1
        /\ Unregistered(people[P1])

\* C10: a checkOut for an id of no document reads nothing, throws
\* person-not-found without issuing an update, and no step of it changes the
\* collection
C10_CheckOutNotFound ==
    [][\A c \in Calls :
          /\ CheckOutFind(c) /\ calls[c].arg.str \notin DOMAIN people
                => calls'[c].person = NoPerson /\ people' = people
          /\ CheckOutChecks(c) /\ calls[c].arg.str \notin DOMAIN people
                => /\ calls'[c] = Done(calls[c], "person-not-found")
                   /\ people' = people]_vars

\* a checkOut of the unknown id has thrown person-not-found
C10_Witness ==
    \E c \in Calls :
        /\ Ended(c, "checkOut", "person-not-found")
        /\ calls[c].arg = StrArg(PX)

\* the argument is not a string, or a string of nothing but spaces
InvalidId(arg) ==
    \/ arg.type # "string"
    \/ \A i \in 1..Len(arg.str) : arg.str[i] = " "

\* C11: an invocation of checkIn or checkOut whose personId is not a string,
\* or is empty or blank, has thrown invalid-argument and is never waiting for
\* a read or an update of the collection
C11_InvalidArgumentBeforeStore ==
    \A c \in Calls :
        calls[c].method # "none" /\ InvalidId(calls[c].arg)
            => calls[c].pc = "done" /\ calls[c].result = "invalid-argument"

\* a checkIn with a number and a checkOut with a blank string have both thrown
\* invalid-argument, and the collection is as seeded
C11_Witness ==
    \E c, d \in Calls :
        /\ Ended(c, "checkIn", "invalid-argument") /\ calls[c].arg = NumArg
        /\ Ended(d, "checkOut", "invalid-argument") /\ calls[d].arg = StrArg(BlankStr)
        /\ people = SeedPeople

C13_InvalidFilterEmptyReady ==
    sub.state = "active" /\ InvalidId(sub.arg)
        => /\ sub.ready
           /\ ~sub.cursor.query
           /\ DOMAIN sub.docs = {}
           /\ sub.pending = <<>>
           /\ sub.seen = NoEvent

\* a subscription with the number 42 is ready while P1 has departed and P2 is
\* present
C13_Witness ==
    /\ sub.state = "active" /\ sub.arg = NumArg /\ sub.ready
    /\ Departed(people[P1])
    /\ Present(people[P2])

\* C14: every document a subscriber of 'people' with a valid communityId
\* holds has that communityId
C14_OnlyOwnCommunity ==
    sub.state = "active" /\ ~InvalidId(sub.arg)
        => \A id \in DOMAIN sub.docs : sub.docs[id].communityId = sub.arg.str

\* the subscriber of Comm1 holds P1 as present, every notification has been
\* delivered, and P2 of Comm2 has changed in the collection
C14_Witness ==
    /\ sub.state = "active" /\ sub.arg = StrArg(Comm1)
    /\ sub.pending = <<>>
    /\ P1 \in DOMAIN sub.docs /\ Present(sub.docs[P1])
    /\ Departed(people[P2])

\* the documents of P1, of Comm1, a notification can carry
Comm1Docs ==
    {[SeedPeople[P1] EXCEPT !.checkInDate = ci, !.checkOutDate = co] :
        ci \in Times \cup {Null}, co \in Times \cup {Null}}

\* C15: while a subscription to Comm1 is observed, the notification of a
\* write to P1 of Comm1 is followed by the subscriber observing a change event
\* that carries the document as written, unless the subscription is cancelled
C15_SubscriberObservesChange ==
    \A d \in Comm1Docs :
        (/\ Observing(sub)
         /\ \E i \in 1..Len(sub.pending) :
               sub.pending[i].id = P1 /\ sub.pending[i].after = d)
        ~> (\/ sub.seen = [delta |-> "changed", id |-> P1, doc |-> d]
            \/ sub.state # "active")

\* the subscriber of Comm1 has observed the change event of P1's check-out
C15_Witness ==
    /\ sub.state = "active" /\ sub.arg = StrArg(Comm1)
    /\ sub.seen.delta = "changed" /\ sub.seen.id = P1
    /\ Departed(sub.seen.doc)
    /\ sub.docs[P1] = sub.seen.doc

\* C16: a subscription to 'communities' is ready and holds every document of
\* the Communities collection
C16_AllCommunities ==
    commSub.state = "active"
        => commSub.ready /\ commSub.docs = SeedCommunities

\* the subscription to 'communities' holds both communities
C16_Witness ==
    /\ commSub.state = "active"
    /\ DOMAIN commSub.docs = {Comm1, Comm2}

\* the invocation in slot c ends in this step
Ends(c) == calls[c].pc # "done" /\ calls'[c].pc = "done"

\* the documents this step changes
Changed == {p \in DOMAIN people : people'[p] # people[p]}

DeliveryFollowsFilter ==
    Deliver =>
        LET n == Head(sub.pending)
            mb == n.before.communityId = sub.cursor.communityId
            ma == n.after.communityId = sub.cursor.communityId
        IN /\ sub'.pending = Tail(sub.pending)
           /\ ~mb /\ ma => /\ sub'.seen = [delta |-> "added", id |-> n.id, doc |-> n.after]
                           /\ n.id \in DOMAIN sub'.docs /\ sub'.docs[n.id] = n.after
           /\ mb /\ ~ma => /\ sub'.seen = [delta |-> "removed", id |-> n.id, doc |-> n.after]
                           /\ n.id \notin DOMAIN sub'.docs
           /\ mb /\ ma => /\ sub'.seen = [delta |-> "changed", id |-> n.id, doc |-> n.after]
                          /\ sub'.docs[n.id] = n.after
           /\ ~mb /\ ~ma => sub'.seen = sub.seen /\ sub'.docs = sub.docs

C19_NoDeltaAfterCancel ==
    [][/\ sub.state = "active" /\ sub'.state # "active" => Unsubscribe
       /\ sub'.state = "stopped" => sub' = StoppedSub
       /\ sub.state = "stopped"
             => \/ sub' = sub
                \/ \E arg \in SubArgValues : Subscribe(arg)]_vars

\* the subscription is cancelled and a checkOut of P1 has returned success
C19_Witness ==
    /\ sub.state = "stopped"
    /\ Ended(1, "checkOut", "success") /\ calls[1].arg.str = P1

\* the collection with the dates of p's document replaced by any dates
WithOther(p) ==
    {[people EXCEPT ![p].checkInDate = ci, ![p].checkOutDate = co] :
        ci \in Times \cup {Null}, co \in Times \cup {Null}}

\* C20: a step of an invocation for id leaves every other document as it is,
\* and what the step reads, writes to id's document and answers is the same
\* whatever another document holds
C20_RecordsIndependent ==
    [][\A c \in Calls :
          calls'[c] # calls[c] =>
             LET id == IF calls[c].method = "none"
                       THEN calls'[c].arg.str ELSE calls[c].arg.str
             IN \A p \in DOMAIN people \ {id} :
                   /\ p \in DOMAIN people' /\ people'[p] = people[p]
                   /\ \A q \in WithOther(p) :
                         /\ CheckOutFind(c) => calls'[c].person = FindOne(q, id)
                         /\ CheckInUpdate(c) =>
                               LET patch == CheckInPatch(calls[c].date)
                               IN /\ FindOne(UpdateSet(q, id, patch), id)
                                        = FindOne(people', id)
                                  /\ calls'[c].result = "success"
                                        <=> ModifiedCount(q, id, patch) # 0
                         /\ CheckOutUpdate(c) =>
                               LET patch == CheckOutPatch(calls[c].date)
                               IN /\ FindOne(UpdateSet(q, id, patch), id)
                                        = FindOne(people', id)
                                  /\ calls'[c].result = "success"
                                        <=> ModifiedCount(q, id, patch) # 0]_vars

\* a checkOut of P1 has returned success while a checkOut of P2, present,
\* waits for its update
C20_Witness ==
    \E c, d \in Calls :
        /\ Ended(c, "checkOut", "success") /\ calls[c].arg.str = P1
        /\ calls[d].method = "checkOut" /\ calls[d].arg.str = P2
        /\ calls[d].pc = "update"
        /\ Departed(people[P1]) /\ Present(people[P2])

\* the fields of a document no method writes
ProfileFields == {"communityId", "firstName", "lastName", "companyName", "title"}

\* C21: no step adds or removes a document or a field, or changes a
\* document's communityId, firstName, lastName, companyName or title; the
\* update of a checkIn changes nothing but checkInDate and checkOutDate, and
\* the update of a checkOut leaves checkInDate as it was as well
C21_OnlyDatesChange ==
    [][/\ DOMAIN people' = DOMAIN people
       /\ \A p \in DOMAIN people :
             /\ DOMAIN people'[p] = DOMAIN people[p]
             /\ \A f \in ProfileFields : people'[p][f] = people[p][f]
             /\ people'[p] # people[p]
                   => \E c \in Calls : CheckInWrites(c, p) \/ CheckOutWrites(c, p)
             /\ \A c \in Calls :
                   CheckOutWrites(c, p)
                      => people'[p].checkInDate = people[p].checkInDate]_vars

\* P1 has checked in and out, a checkOut has returned success, and its
\* document differs from the seeded one in the two dates only
C21_Witness ==
    /\ \E c \in Calls : Ended(c, "checkOut", "success") /\ calls[c].arg.str = P1
    /\ Departed(people[P1])
    /\ people[P1] = [SeedPeople[P1] EXCEPT !.checkInDate = people[P1].checkInDate,
                                          !.checkOutDate = people[P1].checkOutDate]

\* C22: a step that changes a document's checkInDate is the update of a
\* checkIn and leaves checkOutDate null in the same step; the notification of
\* that step carries the document before and after the whole update, and
\* findOneAsync resolves to a document as stored
C22_CheckInWriteAtomic ==
    [][/\ \A p \in DOMAIN people :
             people'[p].checkInDate # people[p].checkInDate
                => /\ \E c \in Calls : CheckInWrites(c, p)
                   /\ people'[p] = SetFields(people[p],
                                             [checkInDate |-> people'[p].checkInDate,
                                              checkOutDate |-> Null])
                   /\ Observing(sub)
                         => sub'.pending = Append(sub.pending,
                                                  [id |-> p, before |-> people[p],
                                                   after |-> people'[p]])
       /\ \A c \in Calls :
             CheckOutFind(c) => calls'[c].person = FindOne(people, calls[c].arg.str)]_vars

\* P1 has departed and checked in again: the notification of the checkOut
\* and the one of the second checkIn wait for the subscriber, the second
\* carrying the departed document before and the present one after
C22_Witness ==
    /\ Ended(1, "checkIn", "success") /\ calls[1].arg.str = P1
    /\ Observing(sub) /\ Len(sub.pending) = 2
    /\ Departed(sub.pending[2].before) /\ Present(sub.pending[2].after)
    /\ sub.pending[2].after = people[P1]
    /\ sub.pending[2].after.checkInDate # sub.pending[2].before.checkInDate

\* the error codes the two methods throw themselves
TypedErrors ==
    {"invalid-argument", "person-not-found", "invalid-operation",
     "already-checked-out", "update-failed"}

\* how far an invocation has come: a step of an invocation that is not its
\* return to the client moves it forward
Progress(pc) ==
    CASE pc = "idle" -> 0 [] pc = "find" -> 1 [] pc = "found" -> 2
      [] pc = "update" -> 3 [] pc = "done" -> 4

\* C23: an invocation that ends without success ends with one of the
\* methods' own error codes or with database-error; the error a method throws
\* itself reaches the client with its own code (person-not-found from a
\* missing document, the pre-check's code, update-failed from an update that
\* modified nothing); the rejection of a store call ends the invocation with
\* database-error and nothing written; and no invocation goes back to a store
\* call it has made
C23_TypedFailures ==
    [][\A c \in Calls :
          /\ Ends(c) /\ calls'[c].result # "success"
                => calls'[c].result \in TypedErrors \cup {"database-error"}
          /\ StoreRejects(c)
                => /\ Ends(c) /\ calls'[c].result = "database-error"
                   /\ people' = people
          /\ Ends(c) /\ calls'[c].result = "database-error" => StoreRejects(c)
          /\ CheckOutChecks(c) /\ Ends(c)
                => calls'[c].result = CheckOutPreCheck(calls[c].person)
          /\ CheckInUpdate(c) /\ calls'[c].result # "success"
                => calls'[c].result = "person-not-found"
          /\ CheckOutUpdate(c) /\ calls'[c].result # "success"
                => calls'[c].result = "update-failed"
          /\ calls'[c] # calls[c] /\ calls[c].pc # "done"
                => Progress(calls'[c].pc) > Progress(calls[c].pc)]_vars

\* one invocation has ended with database-error, the other with the
\* already-checked-out of its pre-check, and P1 has departed
C23_Witness ==
    \E c, d \in Calls :
        /\ Ended(c, "checkOut", "database-error") /\ calls[c].arg.str = P1
        /\ Ended(d, "checkOut", "already-checked-out") /\ calls[d].arg.str = P1
        /\ Departed(people[P1])

\* C24: an invocation that awaits the store or holds its answer ends, with
\* success or with an error
C24_EveryCallCompletes ==
    \A c \in Calls :
        calls[c].pc \in {"find", "found", "update"}
            ~> (/\ calls[c].pc = "done"
                /\ calls[c].result \in TypedErrors \cup {"database-error", "success"})

\* a checkOut of P1 has ended with success and a checkIn of PX with
\* person-not-found
C24_Witness ==
    \E c, d \in Calls :
        /\ Ended(c, "checkOut", "success") /\ calls[c].arg.str = P1
        /\ Ended(d, "checkIn", "person-not-found") /\ calls[d].arg.str = PX

\* C25 as claimed: when the user picks an event in the select, HomePage's
\* selectedCommunityId becomes the id of that event and raises no error, and
\* an active subscription to 'people' is then one for that community, holding
\* its documents
C25_SelectionFollowsUser ==
    [][\A value \in DOMAIN SeedCommunities :
          SelectEvent(value)
             => /\ home'.selectedCommunityId = StrArg(value)
                /\ home'.error = "none"
                /\ sub.state = "active"
                      => /\ sub'.arg = StrArg(value)
                         /\ sub'.docs = Fetch(people, PublishPeople(StrArg(value)))]_vars

\* the invocation of method for person p starts in this step
Invokes(method, p) ==
    \E c \in Calls :
        /\ calls[c].pc = "idle"
        /\ calls'[c].method = method /\ calls'[c].arg = StrArg(p)

\* C26: for every person of the list the button follows the document shown:
\* check-in exactly when checkInDate is null, check-out exactly when the
\* person is present and WaitSeconds have passed since checkInDate, the
\* disabled wait button exactly when present and earlier than that, and no
\* button once checkOutDate is set; and an invocation of people.checkIn
\* starts only for a person shown as unregistered, one of people.checkOut
\* only for a person shown as present for WaitSeconds or more
C26_OneActionPerPerson ==
    [][\A p \in DOMAIN SeedPeople :
          /\ p \in DOMAIN sub.docs =>
                LET doc == sub.docs[p]
                    button == RenderActionButton(doc, now)
                    waited == (now - doc.checkInDate) * MsPerTick >= WaitSeconds * 1000
                IN /\ button = "check-in" <=> doc.checkInDate = Null
                   /\ button = "check-out" <=> Present(doc) /\ waited
                   /\ button = "wait" <=> Present(doc) /\ ~waited
                   /\ Departed(doc) => button = "none"
          /\ Invokes("checkIn", p)
                => p \in DOMAIN sub.docs /\ Unregistered(sub.docs[p])
          /\ Invokes("checkOut", p)
                => /\ p \in DOMAIN sub.docs /\ Present(sub.docs[p])
                   /\ (now - sub.docs[p].checkInDate) * MsPerTick
                          >= WaitSeconds * 1000]_vars

\* the check-out button of P1 has been clicked: the list shows P1 as present
\* since the tick before, and the people.checkOut awaits findOneAsync
C26_Witness ==
    /\ calls[1].method = "checkOut" /\ calls[1].pc = "find"
    /\ calls[1].arg = StrArg(P1)
    /\ P1 \in DOMAIN sub.docs /\ Present(sub.docs[P1])
    /\ now = sub.docs[P1].checkInDate + 1

====
